---- MODULE Spec2Model ----
(***************************************************************************)
(* Session controller of the LM Studio fork of gemini-cli.                 *)
(*                                                                         *)
(* Two builds of the App component are in the repository:                  *)
(*   "rich"   src/unnamed/part_000            (enrichment, approval gate,  *)
(*                                             autopilot, request timeout) *)
(*   "simple" src/packages/cli/src/ui/App.tsx (plain dispatch)             *)
(* The variable `variant` says which one is running.                       *)
(*                                                                         *)
(* React semantics kept by the model: a handler runs to its first await    *)
(* against the values of the render it was created in; a callback that is  *)
(* stored and run later (proceed inside an ApprovalRequest) carries the    *)
(* values it closed over (selectedModel, history) with it.  State setters  *)
(* queue updates, so every addItem of a handler lands in history in call   *)
(* order while the handler's own `history` stays the rendered one.         *)
(***************************************************************************)
EXTENDS Integers, Sequences, FiniteSets, TLC

----------------------------------------------------------------------------
(* Bounds *)

MaxHistory == 4      \* history entries kept in one run
BigPad == 20000      \* filler length of the over-budget file

----------------------------------------------------------------------------
(* Strings.  A string is [chars, pad]: the characters `chars` followed by  *)
(* `pad` copies of "!" (a character outside \w, "." and "-").              *)

Str(cs) == [chars |-> cs, pad |-> 0]
StrLen(s) == Len(s.chars) + s.pad

\* String.prototype.substring(0, n): a negative n counts as 0
Substring(s, n) ==
  LET m == IF n < 0 THEN 0 ELSE n IN
  IF m >= StrLen(s) THEN s
  ELSE IF m <= Len(s.chars) THEN [chars |-> SubSeq(s.chars, 1, m), pad |-> 0]
  ELSE [chars |-> s.chars, pad |-> m - Len(s.chars)]

WordChars ==
  {"a", "b", "d", "h", "i", "l", "m", "p", "s", "t", "x", "_", "1",
   "C", "E", "N", "O", "T"}
IsWord(c) == c \in WordChars
IsNameChar(c) == IsWord(c) \/ c \in {".", "-"}

NoMatch == [none |-> TRUE]

SetMax(S) == CHOOSE x \in S : \A y \in S : y <= x
SetMin(S) == CHOOSE x \in S : \A y \in S : x <= y

\* the match of /([\w.-]+\.[\w]+)/ that starts at position i of cs, or NoMatch
MatchAt(cs, i) ==
  LET n == Len(cs)
      runEnd == SetMax({j \in (i-1)..n : \A p \in i..j : IsNameChar(cs[p])})
      dots == {k \in (i+1)..runEnd :
                 cs[k] = "." /\ k + 1 <= n /\ IsWord(cs[k+1])}
  IN IF dots = {} THEN NoMatch
     ELSE LET k == SetMax(dots)
              e == SetMax({j \in (k+1)..n : \A p \in (k+1)..j : IsWord(cs[p])})
          IN SubSeq(cs, i, e)

\* prompt.match(filePathRegex)[0]: the leftmost match, or NoMatch
filePathRegex(prompt) ==
  LET cs == prompt.chars
      starts == {i \in 1..Len(cs) : MatchAt(cs, i) # NoMatch}
  IN IF starts = {} THEN NoMatch ELSE MatchAt(cs, SetMin(starts))

----------------------------------------------------------------------------
(* Filesystem.  A directory is the sequence of its entries in the order    *)
(* readdirSync enumerates them; an entry is [name, kind, children,         *)
(* content] with kind "file", "dir" or "link" (a symbolic link to a        *)
(* directory: lstat says it is no directory, reading it throws).           *)

File(nm, c) == [name |-> nm, kind |-> "file", children |-> <<>>, content |-> c]
Dir(nm, es) == [name |-> nm, kind |-> "dir", children |-> es, content |-> Str(<<>>)]
Link(nm) == [name |-> nm, kind |-> "link", children |-> <<>>, content |-> Str(<<>>)]

ignoreDirs == {<<"d", "i", "s", "t">>, <<"b", "u", "i", "l", "d">>,
               <<".", "g", "i", "t">>,
               <<"n", "o", "d", "e", "_", "m", "o", "d", "u", "l", "e", "s">>}

NotFound == [null |-> TRUE]

RECURSIVE search_lastMatch(_, _, _)
\* a search whose loop goes on after a match: the last match wins
search_lastMatch(entries, prefix, filter) ==
  IF entries = <<>> THEN NotFound
  ELSE LET f == Head(entries)
           newPath == Append(prefix, f.name)
           here == IF f.kind = "dir" /\ f.name \notin ignoreDirs
                   THEN search_lastMatch(f.children, newPath, filter)
                   ELSE IF f.name = filter THEN [path |-> newPath, entry |-> f]
                   ELSE NotFound
           later == search_lastMatch(Tail(entries), prefix, filter)
       IN IF later # NotFound THEN later ELSE here

RECURSIVE search(_, _, _)
\* search(currentPath): `entries` are the entries of the directory reached
\* by the names in `prefix`; the result is [path, entry] of the first
\* match in depth-first order, or NotFound
search(entries, prefix, filter) ==
  IF entries = <<>> THEN NotFound
  ELSE LET f == Head(entries)
           newPath == Append(prefix, f.name)
           inDir == IF f.kind = "dir" /\ f.name \notin ignoreDirs
                    THEN search(f.children, newPath, filter)
                    ELSE NotFound
       IN IF f.kind = "dir" /\ f.name \notin ignoreDirs
          THEN IF inDir # NotFound THEN inDir
               ELSE search(Tail(entries), prefix, filter)
          ELSE IF f.name = filter THEN [path |-> newPath, entry |-> f]
          ELSE search(Tail(entries), prefix, filter)

findFileRecursive(startEntries, filter) == search(startEntries, <<>>, filter)

RECURSIVE lstatCalls(_, _, _)
\* the paths search hands to fs.lstatSync, in order, up to its return
lstatCalls(entries, prefix, filter) ==
  IF entries = <<>> THEN <<>>
  ELSE LET f == Head(entries)
           newPath == Append(prefix, f.name)
       IN IF f.kind = "dir" /\ f.name \notin ignoreDirs
          THEN <<newPath>> \o lstatCalls(f.children, newPath, filter)
               \o (IF search(f.children, newPath, filter) # NotFound THEN <<>>
                   ELSE lstatCalls(Tail(entries), prefix, filter))
          ELSE IF f.name = filter THEN <<newPath>>
          ELSE <<newPath>> \o lstatCalls(Tail(entries), prefix, filter)

CwdLen == 10         \* length of process.cwd()

RECURSIVE NamesLen(_)
NamesLen(names) ==
  IF names = <<>> THEN 0 ELSE 1 + Len(Head(names)) + NamesLen(Tail(names))

\* length of the string path.join(cwd, ...names)
PathLen(names) == CwdLen + NamesLen(names)

----------------------------------------------------------------------------
(* Program constants *)

MAX_CONTEXT_TOKENS == 4096
TEMPLATE_FIXED_LEN == 125   \* characters of baseTemplate outside ${prompt}, ${fullPath} and {CONTENT}
PLACEHOLDER_LEN == 9        \* '{CONTENT}'.length
Placeholder == <<"{", "C", "O", "N", "T", "E", "N", "T", "}">>

----------------------------------------------------------------------------
(* Inputs of the model *)

Sp == " "
hi == Str(<<"h", "i">>)
aT == <<"a", ".", "t">>
bT == <<"b", ".", "t">>
lT == <<"l", ".", "t">>
mT == <<"m", ".", "t">>

\* what the user may type and submit
SubmittedValues ==
  {hi, Str(<<Sp>> \o aT), Str(bT), Str(mT), Str(lT), Str(<<Sp, Sp>>)}

\* the working directory of the session
WorkTree ==
  << Dir(<<"d", "i", "s", "t">>, <<File(mT, Str(<<"x">>))>>),
     Dir(<<"l", "i", "b">>, <<File(aT, Str(<<"x", "x">>)), Link(lT)>>),
     File(bT, [chars |-> <<"x">>, pad |-> BigPad]) >>

\* a working directory for the enrichment pipeline: short and long files,
\* with and without "$" sequences
sT == <<"s", ".", "t">>
pT == <<"p", ".", "t">>
dT == <<"d", ".", "t">>
PromptTree ==
  << File(aT, Str(<<"x", "x">>)),
     File(sT, Str(<<"$", "$", "x">>)),
     File(pT, Str(<<"$", "&">>)),
     File(bT, [chars |-> <<"x">>, pad |-> BigPad]),
     File(dT, [chars |-> <<"$", "$">>, pad |-> BigPad]) >>

\* prompts for the enrichment pipeline: with a file token (the last one
\* longer than the whole context budget) and without
PromptValues ==
  { Str(aT), Str(sT), Str(pT), Str(bT), Str(dT),
    Str(Placeholder \o <<Sp>> \o aT),
    [chars |-> aT \o <<Sp>>, pad |-> BigPad],
    hi, Str(<<Sp, "h", "i">>), Str(<<"h", "i", Sp>>),
    Str(<<".", "t">>), Str(<<"a", ".">>), Str(<<"a", "-", "b">>),
    Str(<<"a", ".", Sp, "t">>), Str(<<Sp, Sp>>) }

ModelIds == {"m1", "m2"}
NotJson == [syntaxError |-> TRUE]   \* a body on which response.json() rejects
NoModel == "null"

\* what the model-listing endpoint may answer
ModelsResponses ==
  { [net |-> "fail"],
    [net |-> "ok", ok |-> FALSE],
    [net |-> "ok", ok |-> TRUE, json |-> NotJson],
    [net |-> "ok", ok |-> TRUE, json |-> [other |-> 0]],
    [net |-> "ok", ok |-> TRUE, json |-> [data |-> <<>>]],
    [net |-> "ok", ok |-> TRUE, json |-> [data |-> <<[id |-> "m1"], [id |-> "m2"]>>]] }

\* what the model may say
Contents == {Str(aT), Str(<<"h", "m">>)}

\* bodies of a chat-completion response: text that is no JSON, or a JSON value
Bodies ==
  { NotJson,
    [other |-> 0],
    [choices |-> <<>>],
    [choices |-> <<[other |-> 0]>>],
    [choices |-> <<[message |-> [other |-> 0]]>>] }
  \cup { [choices |-> <<[message |-> [content |-> c]]>>] : c \in Contents }

\* key events: the character(s) delivered and the modifier flags of ink's Key
Key(in, c, r) == [input |-> in, ctrl |-> c, return |-> r]
Keys ==
  { Key("", FALSE, TRUE),
    Key("y", FALSE, FALSE), Key("Y", FALSE, FALSE),
    Key("n", FALSE, FALSE), Key("N", FALSE, FALSE),
    Key("q", FALSE, FALSE),
    Key("a", TRUE, FALSE), Key("c", TRUE, FALSE), Key("d", TRUE, FALSE) }

----------------------------------------------------------------------------
(* State *)

VARIABLES
  variant,          \* "rich" (part_000) or "simple" (App.tsx)
  cwd,              \* entries of process.cwd()
  inputs,           \* the texts the user of this session may submit
  logger,           \* useLogger(): None, or the logger with its persisted log
  headless,         \* the run of runNonInteractive, or None in a UI session
  userMessages,     \* useState: the published recall list
  recalls,          \* runs of the recall effect awaiting the persisted log
  effectDeps,       \* the history the recall effect last ran for, or None
  history,          \* useHistory().history
  models,           \* useState: ids of the listed models
  selectedModel,    \* useState
  modelsFetch,      \* "pending" while fetchModels awaits, then "done"
  streamingState,   \* useState: "Idle" or "Responding"
  isAutopilot,      \* useState
  approvalRequest,  \* useState: None or the pending request
  request,          \* the chat-completion fetch in flight, or None
  exitKeys,         \* per exit key: pressedOnce state and timer ref
  bufferEmpty,      \* buffer.text.length === 0
  quit,             \* handleSlashCommand('/quit') was called this many times
  trace             \* history variable: events of the current submission

env == <<variant, cwd, inputs, logger, headless>>
recall == <<userMessages, recalls, effectDeps>>

vars == <<env, recall, history, models, selectedModel, modelsFetch,
          streamingState, isAutopilot, approvalRequest, request,
          exitKeys, bufferEmpty, quit, trace>>

None == [none |-> TRUE]
Undefined == [undefined |-> TRUE]

Item(ty, tx) == [type |-> ty, text |-> tx]
Msg(m) == [msg |-> m]
MsgOf(m, a) == [msg |-> m, arg |-> a]

\* history.at(-1)?.text
LastText(h) == IF h = <<>> THEN Undefined ELSE h[Len(h)].text

(* The part of the state a handler updates, threaded through its calls.    *)
Cur ==
  [history |-> history, streamingState |-> streamingState,
   approvalRequest |-> approvalRequest, request |-> request,
   isAutopilot |-> isAutopilot, exitKeys |-> exitKeys, quit |-> quit,
   trace |-> trace]

Commit(s) ==
  /\ history' = s.history
  /\ streamingState' = s.streamingState
  /\ approvalRequest' = s.approvalRequest
  /\ request' = s.request
  /\ isAutopilot' = s.isAutopilot
  /\ exitKeys' = s.exitKeys
  /\ quit' = s.quit
  /\ trace' = s.trace

Log(s, ev) == [s EXCEPT !.trace = Append(@, ev)]
Ev(e) == [e |-> e]

\* useHistory().addItem: append one entry
addItem(s, item) == [s EXCEPT !.history = Append(@, item)]

----------------------------------------------------------------------------
(* Model Dispatch Client *)

Has(r, f) == f \in DOMAIN r

NewRequest(model, content, timed) ==
  [model |-> model, content |-> content, phase |-> "fetch", ok |-> FALSE,
   timer |-> timed]

\* sendQueryToModel with the model check placed after the user entry
sendQueryToModel_lateCheck(s, promptToSend, originalPrompt, selModel, hist) ==
  LET s0 == Log(s, [e |-> "dispatch", promptToSend |-> promptToSend,
                    originalPrompt |-> originalPrompt,
                    last |-> LastText(s.history), len |-> Len(s.history)])
      s1 == IF LastText(hist) # originalPrompt
            THEN Log(addItem(s0, Item("user", originalPrompt)), Ev("user"))
            ELSE s0
  IN IF selModel = NoModel
     THEN addItem(s1, Item("error", Msg("Error: No local model is selected.")))
     ELSE Log([s1 EXCEPT !.streamingState = "Responding",
                         !.request = NewRequest(selModel, promptToSend, TRUE)],
              [e |-> "request", model |-> selModel, content |-> promptToSend])

\* part_000 184-212, up to the await of fetch.  selModel and hist are the
\* values of selectedModel and history the callback closed over.
sendQueryToModel(s, promptToSend, originalPrompt, selModel, hist) ==
  LET s0 == Log(s, [e |-> "dispatch", promptToSend |-> promptToSend,
                    originalPrompt |-> originalPrompt,
                    last |-> LastText(s.history), len |-> Len(s.history)])
  IN IF selModel = NoModel
     THEN addItem(s0, Item("error", Msg("Error: No local model is selected.")))
     ELSE LET s1 == IF LastText(hist) # originalPrompt
                    THEN Log(addItem(s0, Item("user", originalPrompt)), Ev("user"))
                    ELSE s0
          IN Log([s1 EXCEPT !.streamingState = "Responding",
                            !.request = NewRequest(selModel, promptToSend, TRUE)],
                 [e |-> "request", model |-> selModel, content |-> promptToSend])

\* App.tsx 127-183 (submitQuery of the simple build), up to the await of fetch
submitQuerySimple(s, prompt, selModel) ==
  LET s0 == Log(s, [e |-> "dispatch", promptToSend |-> prompt,
                    originalPrompt |-> prompt,
                    last |-> LastText(s.history), len |-> Len(s.history)])
  IN IF selModel = NoModel
     THEN addItem(s0, Item("error",
                  Msg("Error: No local model is selected or available.")))
     ELSE LET s1 == Log(addItem(s0, Item("user", prompt)), Ev("user"))
          IN Log([s1 EXCEPT !.streamingState = "Responding",
                            !.request = NewRequest(selModel, prompt, FALSE)],
                 [e |-> "request", model |-> selModel, content |-> prompt])

\* responseData.choices[0].message.content: the value read, or a TypeError
\* when a property of undefined is read
ResponseText(data) ==
  IF ~Has(data, "choices") THEN [typeError |-> TRUE]
  ELSE IF Len(data.choices) = 0 THEN [typeError |-> TRUE]
  ELSE IF ~Has(data.choices[1], "message") THEN [typeError |-> TRUE]
  ELSE IF ~Has(data.choices[1].message, "content") THEN [value |-> Undefined]
  ELSE [value |-> data.choices[1].message.content]

ErrorItem(detail) ==
  Item("error", MsgOf("Error connecting to local model: ", [message |-> detail]))

\* the catch block without the finally block
Fail_noFinally(s, detail) ==
  Log([addItem(s, ErrorItem(detail)) EXCEPT !.request = None],
      [e |-> "outcome", type |-> "error"])

\* the catch and finally blocks: part_000 205-209, App.tsx 170-180
Fail(s, detail) ==
  Log([addItem(s, ErrorItem(detail)) EXCEPT !.streamingState = "Idle",
                                            !.request = None],
      [e |-> "outcome", type |-> "error"])

\* the property reads outside the try block: a TypeError escapes
Succeed_uncaught(s, body) ==
  IF body = NotJson THEN Fail(s, "SyntaxError")
  ELSE LET r == ResponseText(body)
       IN IF Has(r, "typeError")
          THEN [s EXCEPT !.streamingState = "Idle", !.request = None]
          ELSE Log([addItem(s, Item("gemini", r.value))
                      EXCEPT !.streamingState = "Idle", !.request = None],
                   [e |-> "outcome", type |-> "gemini"])

\* part_000 202-204 and 207-209, App.tsx 163-169 and 178-180
Succeed(s, body) ==
  IF body = NotJson THEN Fail(s, "SyntaxError")
  ELSE LET r == ResponseText(body)
       IN IF Has(r, "typeError") THEN Fail(s, "TypeError")
          ELSE Log([addItem(s, Item("gemini", r.value))
                      EXCEPT !.streamingState = "Idle", !.request = None],
                   [e |-> "outcome", type |-> "gemini"])

----------------------------------------------------------------------------
(* Context Enrichment Pipeline and Approval Gate (part_000 only) *)

NotFoundPrompt(fileName) == [tpl |-> "notfound", fileName |-> fileName]
FoundPrompt(prompt, path, content) ==
  [tpl |-> "found", prompt |-> prompt, fullPath |-> path, content |-> content]

\* String.prototype.indexOf: the first position of pat in cs, 0 when absent
IndexOf(cs, pat) ==
  LET at == {i \in 1..(Len(cs) - Len(pat) + 1) :
               SubSeq(cs, i, i + Len(pat) - 1) = pat}
  IN IF at = {} THEN 0 ELSE SetMin(at)

\* GetSubstitution for a string pattern: in the replacement text "$$" stands
\* for "$" and "$&" for the matched text; a "$" before any other character
\* of the model's alphabet is kept
RECURSIVE Expand(_, _)
Expand(cs, matched) ==
  IF cs = <<>> THEN <<>>
  ELSE IF Len(cs) >= 2 /\ cs[1] = "$" /\ cs[2] = "$"
  THEN <<"$">> \o Expand(SubSeq(cs, 3, Len(cs)), matched)
  ELSE IF Len(cs) >= 2 /\ cs[1] = "$" /\ cs[2] = "&"
  THEN matched \o Expand(SubSeq(cs, 3, Len(cs)), matched)
  ELSE <<Head(cs)>> \o Expand(Tail(cs), matched)

GetSubstitution(replacement, matched) ==
  [replacement EXCEPT !.chars = Expand(@, matched)]

\* baseTemplate.replace('{CONTENT}', fileContent): the first '{CONTENT}' of
\* the template is replaced, and the template holds the prompt before its
\* own content slot
Replace_verbatim(prompt, path, fileContent) ==
  FoundPrompt(prompt, path, fileContent)

Replace(prompt, path, fileContent) ==
  LET sub == GetSubstitution(fileContent, Placeholder)
      k == IndexOf(prompt.chars, Placeholder)
  IN IF k = 0 THEN FoundPrompt(prompt, path, sub)
     ELSE FoundPrompt(
            [before |-> SubSeq(prompt.chars, 1, k - 1), inserted |-> sub,
             after |-> [prompt EXCEPT !.chars =
                          SubSeq(@, k + Len(Placeholder), Len(@))]],
            path, Str(Placeholder))

\* baseTemplate.length
TemplateLen(prompt, path) ==
  TEMPLATE_FIXED_LEN + PLACEHOLDER_LEN + StrLen(prompt) + PathLen(path)

\* the stored continuation: proceed with the values it closed over
Proceed(enriched, prompt, selModel, hist) ==
  [promptToSend |-> enriched, originalPrompt |-> prompt,
   selectedModel |-> selModel, history |-> hist]

proceed(s, c) ==
  sendQueryToModel(s, c.promptToSend, c.originalPrompt, c.selectedModel, c.history)

\* the gate passed over when the file was not found
Gate_skipsWhenNotFound(s, fileName, found, enriched, prompt, selModel, hist, autopilot) ==
  LET c == Proceed(enriched, prompt, selModel, hist)
  IN IF autopilot
     THEN proceed(addItem(s, Item("info",
              MsgOf("Autopilot ON. ",
                    IF found # NotFound THEN [reading |-> found.path]
                    ELSE [couldNotFind |-> fileName]))), c)
     ELSE IF found = NotFound THEN proceed(s, c)
     ELSE Log([s EXCEPT !.approvalRequest =
                 [message |-> fileName, proceed |-> c]], Ev("raise"))

\* part_000 236-246
Gate(s, fileName, found, enriched, prompt, selModel, hist, autopilot) ==
  LET c == Proceed(enriched, prompt, selModel, hist)
  IN IF autopilot
     THEN proceed(addItem(s, Item("info",
              MsgOf("Autopilot ON. ",
                    IF found # NotFound THEN [reading |-> found.path]
                    ELSE [couldNotFind |-> fileName]))), c)
     ELSE Log([s EXCEPT !.approvalRequest =
                 [message |-> fileName, proceed |-> c]], Ev("raise"))

\* part_000 214-252.  selModel, hist and autopilot are the rendered values
\* of selectedModel, history and isAutopilot.
submitQuery(s, prompt, selModel, hist, autopilot) ==
  LET fileName == filePathRegex(prompt)
  IN IF fileName = NoMatch
     THEN sendQueryToModel(s, prompt, prompt, selModel, hist)
     ELSE
       LET found == findFileRecursive(cwd, fileName)
           s1 == Log(s, [e |-> "search", fileName |-> fileName,
                         found |-> found # NotFound,
                         kind |-> IF found = NotFound THEN "none"
                                  ELSE found.entry.kind,
                         path |-> IF found = NotFound THEN None
                                  ELSE found.path,
                         lstat |-> lstatCalls(cwd, <<>>, fileName)])
       IN IF found = NotFound
          THEN Gate(s1, fileName, found, NotFoundPrompt(fileName), prompt,
                    selModel, hist, autopilot)
          ELSE IF found.entry.kind # "file"
          THEN \* readFileSync throws: the promise of submitQuery rejects
               Log(s1, [e |-> "throw", at |-> "readFileSync"])
          ELSE
            LET maxChars == MAX_CONTEXT_TOKENS * 4
                overhead == TemplateLen(prompt, found.path) - PLACEHOLDER_LEN
                availableChars == maxChars - overhead
                content == found.entry.content
                s2 == Log(s1, [e |-> "read", path |-> found.path,
                               content |-> content,
                               availableChars |-> availableChars])
                long == StrLen(content) > availableChars
                fileContent == IF long THEN Substring(content, availableChars)
                               ELSE content
                s3 == IF long
                      THEN addItem(s2, Item("info",
                             MsgOf("Warning: The file was truncated.", [file |-> fileName])))
                      ELSE s2
            IN Gate(s3, fileName, found,
                    Replace(prompt, found.path, fileContent), prompt,
                    selModel, hist, autopilot)

\* onApprove without setApprovalRequest(null)
onApprove_keepsSlot(s) ==
  proceed(Log(s, Ev("approve")), s.approvalRequest.proceed)

\* onDeny that goes on to the continuation
onDeny_proceeds(s) ==
  proceed(Log(addItem([s EXCEPT !.approvalRequest = None],
                      Item("info", Msg("Action cancelled."))), Ev("deny")),
          s.approvalRequest.proceed)

\* onApprove and onDeny of the request raised at part_000 241-245
onApprove(s) ==
  proceed(Log([s EXCEPT !.approvalRequest = None], Ev("approve")),
          s.approvalRequest.proceed)

onDeny(s) ==
  Log(addItem([s EXCEPT !.approvalRequest = None],
              Item("info", Msg("Action cancelled."))), Ev("deny"))

----------------------------------------------------------------------------
(* Keyboard: approval listener, exit debouncer, autopilot toggle *)

toLowerCase(c) ==
  IF c = "Y" THEN "y" ELSE IF c = "N" THEN "n" ELSE IF c = "C" THEN "c"
  ELSE IF c = "D" THEN "d" ELSE c

\* a listener that takes every other key for a refusal
approvalListener_denyOther(s, key) ==
  IF s.approvalRequest = None THEN s
  ELSE IF key.return \/ toLowerCase(key.input) = "y" THEN onApprove(s)
  ELSE onDeny(s)

\* part_000 254-259; registered with isActive: !!approvalRequest
approvalListener(s, key) ==
  IF s.approvalRequest = None THEN s
  ELSE IF key.return \/ toLowerCase(key.input) = "y" THEN onApprove(s)
  ELSE IF toLowerCase(key.input) = "n" THEN onDeny(s)
  ELSE s

\* handleExit without the first-press stage
handleExit_immediate(s, k) ==
  [s EXCEPT !.exitKeys[k].armed = FALSE, !.quit = @ + 1]

\* part_000 332-346, App.tsx 359-377; k names the key's state and timer ref
handleExit(s, k) ==
  IF s.exitKeys[k].pressedOnce
  THEN [s EXCEPT !.exitKeys[k].armed = FALSE, !.quit = @ + 1]
  ELSE [s EXCEPT !.exitKeys[k].pressedOnce = TRUE,
                 !.exitKeys[k].timerRef = TRUE,
                 !.exitKeys[k].armed = TRUE]

\* Ctrl+A flipping the flag without recording the new mode
globalKeysRich_silentToggle(s, key, autopilot) ==
  IF key.ctrl /\ key.input \in {"c", "C"} THEN handleExit(s, "c")
  ELSE IF key.ctrl /\ key.input = "a"
  THEN [s EXCEPT !.isAutopilot = ~autopilot]
  ELSE s

\* part_000 348-355
globalKeysRich(s, key, autopilot) ==
  IF key.ctrl /\ key.input \in {"c", "C"} THEN handleExit(s, "c")
  ELSE IF key.ctrl /\ key.input = "a"
  THEN LET newMode == ~autopilot
       IN addItem([s EXCEPT !.isAutopilot = newMode],
                  Item("info", MsgOf("Autopilot mode is now ", [on |-> newMode])))
  ELSE s

\* both exit keys on the state and timer of Ctrl+C
globalKeysSimple_sharedState(s, key) ==
  LET s1 == IF key.ctrl /\ key.input \in {"c", "C"} THEN handleExit(s, "c")
            ELSE s
  IN IF key.ctrl /\ key.input \in {"d", "D"} /\ bufferEmpty
     THEN handleExit(s1, "c") ELSE s1

\* App.tsx 379-390
globalKeysSimple(s, key) ==
  LET s1 == IF key.ctrl /\ key.input \in {"c", "C"} THEN handleExit(s, "c")
            ELSE s
  IN IF key.ctrl /\ key.input \in {"d", "D"} /\ bufferEmpty
     THEN handleExit(s1, "d") ELSE s1

----------------------------------------------------------------------------
(* Actions *)

\* history entries the stored continuation appends when it runs to its end
Owed(c) ==
  IF c.selectedModel = NoModel THEN 1
  ELSE IF LastText(c.history) # c.originalPrompt THEN 2 ELSE 1

\* history entries still owed by what is pending
Reserve(s) ==
  (IF s.request # None THEN 1 ELSE 0)
  + (IF s.approvalRequest # None THEN Owed(s.approvalRequest.proceed) ELSE 0)
  + (IF modelsFetch = "pending" THEN 1 ELSE 0)

Fits(s) == Len(s.history) + Reserve(s) <= MaxHistory

Running == quit = 0

\* isInputActive without the approval slot
isInputActive_noGate == streamingState = "Idle"

\* isInputActive that leaves the prompt open while a request is in flight
isInputActive_whileResponding == variant = "rich" => approvalRequest = None

\* part_000 303, App.tsx 303
isInputActive ==
  /\ streamingState = "Idle"
  /\ variant = "rich" => approvalRequest = None

RECURSIVE TrimLeft(_)
TrimLeft(cs) == IF cs # <<>> /\ Head(cs) = Sp THEN TrimLeft(Tail(cs)) ELSE cs
RECURSIVE TrimRight(_)
TrimRight(cs) ==
  IF cs # <<>> /\ cs[Len(cs)] = Sp THEN TrimRight(SubSeq(cs, 1, Len(cs) - 1))
  ELSE cs

\* String.prototype.trim
trim(v) ==
  IF v.pad > 0 THEN [v EXCEPT !.chars = TrimLeft(@)]
  ELSE [v EXCEPT !.chars = TrimRight(TrimLeft(@))]

\* handleFinalSubmit handing on the value as typed
handleFinalSubmit_untrimmed(s, submittedValue) ==
  IF StrLen(trim(submittedValue)) > 0
  THEN IF variant = "rich"
       THEN submitQuery(s, submittedValue, selectedModel, history, isAutopilot)
       ELSE submitQuerySimple(s, submittedValue, selectedModel)
  ELSE s

\* part_000 296-299, App.tsx 288-296
handleFinalSubmit(s, submittedValue) ==
  LET trimmedValue == trim(submittedValue)
  IN IF StrLen(trimmedValue) > 0
     THEN IF variant = "rich"
          THEN submitQuery(s, trimmedValue, selectedModel, history, isAutopilot)
          ELSE submitQuerySimple(s, trimmedValue, selectedModel)
     ELSE s

\* the user edits the input buffer
Edit ==
  /\ Running /\ isInputActive
  /\ bufferEmpty' = ~bufferEmpty
  /\ UNCHANGED <<env, recall, history, models, selectedModel, modelsFetch,
                 streamingState, isAutopilot, approvalRequest, request,
                 exitKeys, quit, trace>>

\* InputPrompt calls onSubmit with the buffer's text and clears the buffer
Submit ==
  /\ Running /\ isInputActive /\ ~bufferEmpty
  /\ \E v \in inputs :
       LET s == handleFinalSubmit(
                  [Cur EXCEPT !.trace = <<[e |-> "submit", value |-> v,
                                           autopilot |-> isAutopilot,
                                           at |-> Len(history)]>>], v)
       IN Fits(s) /\ Commit(Log(s, Ev("return")))
  /\ bufferEmpty' = TRUE
  /\ UNCHANGED <<env, recall, models, selectedModel, modelsFetch>>

\* one key event, delivered to every active useInput listener
useInput(s, key) ==
  IF variant = "rich"
  THEN globalKeysRich(approvalListener(s, key), key, isAutopilot)
  ELSE globalKeysSimple(s, key)

KeyPressOf(key) ==
  /\ Running
  /\ LET s == useInput(Cur, key)
     IN Fits(s) /\ s # Cur /\ Commit(s)
  /\ UNCHANGED <<env, recall, models, selectedModel, modelsFetch, bufferEmpty>>

KeyPress == \E key \in Keys : KeyPressOf(key)

\* where a session keeps the history field elapsed of an exit key (the key's
\* timer has run out before), the expiry is recorded in it
Expired(k) == IF Has(k, "elapsed") THEN [k EXCEPT !.elapsed = TRUE] ELSE k

\* a timer that runs out without resetting pressedOnce
ExitTimer_keepsPressed ==
  /\ Running
  /\ \E k \in DOMAIN exitKeys :
       /\ exitKeys[k].armed
       /\ exitKeys' = [exitKeys EXCEPT ![k] = Expired(
            [@ EXCEPT !.timerRef = FALSE, !.armed = FALSE])]
  /\ UNCHANGED <<env, recall, history, models, selectedModel,
                 modelsFetch, streamingState, isAutopilot, approvalRequest,
                 request, bufferEmpty, quit, trace>>

\* the timer set by handleExit fires: part_000 339-342, App.tsx 370-373
ExitTimer ==
  /\ Running
  /\ \E k \in DOMAIN exitKeys :
       /\ exitKeys[k].armed
       /\ exitKeys' = [exitKeys EXCEPT ![k] = Expired(
            [@ EXCEPT !.pressedOnce = FALSE, !.timerRef = FALSE,
                      !.armed = FALSE])]
  /\ UNCHANGED <<env, recall, history, models, selectedModel, modelsFetch,
                 streamingState, isAutopilot, approvalRequest, request,
                 bufferEmpty, quit, trace>>

\* fetchModels after its awaits: part_000 168-182, App.tsx 101-125
fetchModels(r) ==
  IF r.net = "fail" \/ ~r.ok \/ r.json = NotJson
  THEN [models |-> <<>>, selectedModel |-> NoModel, error |-> TRUE]
  ELSE LET availableModels == IF Has(r.json, "data") THEN r.json.data ELSE <<>>
       IN [models |-> availableModels,
           selectedModel |-> IF Len(availableModels) > 0
                             THEN availableModels[1].id ELSE NoModel,
           error |-> FALSE]

\* the listing endpoint answers r
ModelsArriveOf(r) ==
  /\ Running /\ modelsFetch = "pending"
  /\ LET res == fetchModels(r)
     IN /\ models' = res.models
        /\ selectedModel' = res.selectedModel
        /\ history' = IF res.error
                      THEN Append(history, Item("error",
                             Msg("Could not connect to LM Studio")))
                      ELSE history
  /\ modelsFetch' = "done"
  /\ UNCHANGED <<env, recall, streamingState, isAutopilot, approvalRequest,
                 request, exitKeys, bufferEmpty, quit, trace>>

ModelsArrive == \E r \in ModelsResponses : ModelsArriveOf(r)

NetFrame == UNCHANGED <<env, recall, models, selectedModel, modelsFetch,
                        bufferEmpty>>

\* fetch rejects (connection refused, reset)
FetchRejects ==
  /\ Running /\ request # None /\ request.phase = "fetch"
  /\ Commit(Fail(Log(Cur, [e |-> "response", kind |-> "reject"]), "fetch failed"))
  /\ NetFrame

\* the 600 s timer fires and controller.abort() rejects the fetch
FetchAborts ==
  /\ Running /\ request # None /\ request.phase = "fetch" /\ request.timer
  /\ Commit(Fail(Log(Cur, [e |-> "response", kind |-> "abort"]), "AbortError"))
  /\ NetFrame

\* fetch resolves with the response headers; part_000 200 clears the timer
FetchResolves ==
  /\ Running /\ request # None /\ request.phase = "fetch"
  /\ \E ok \in BOOLEAN :
       request' = [request EXCEPT !.phase = "body", !.ok = ok, !.timer = FALSE]
  /\ UNCHANGED <<env, recall, history, models, selectedModel, modelsFetch,
                 streamingState, isAutopilot, approvalRequest, exitKeys,
                 bufferEmpty, quit, trace>>

\* the response body is read to its end
BodyArrives ==
  /\ Running /\ request # None /\ request.phase = "body"
  /\ \E body \in Bodies :
       LET s == Log(Cur, [e |-> "response", kind |-> "body",
                          ok |-> request.ok, body |-> body])
       IN Commit(IF request.ok THEN Succeed(s, body)
                 ELSE Fail(s, "API request failed"))
  /\ NetFrame

\* reading the response body rejects (connection lost)
BodyRejects ==
  /\ Running /\ request # None /\ request.phase = "body"
  /\ Commit(Fail(Log(Cur, [e |-> "response", kind |-> "lost"]), "terminated"))
  /\ NetFrame

----------------------------------------------------------------------------
(* Specification *)

NoExit == [pressedOnce |-> FALSE, timerRef |-> FALSE, armed |-> FALSE]

\* the state of App once mounted, whatever its surroundings
Mounted ==
  /\ history = <<>>
  /\ models = <<>>
  /\ selectedModel = NoModel
  /\ modelsFetch = "pending"
  /\ streamingState = "Idle"
  /\ isAutopilot = FALSE
  /\ approvalRequest = None
  /\ request = None
  /\ bufferEmpty = TRUE
  /\ quit = 0
  /\ trace = <<>>
  /\ userMessages = <<>>
  /\ recalls = <<>>
  /\ effectDeps = None

Init ==
  /\ exitKeys = [k \in {"c", "d"} |-> NoExit]
  /\ variant \in {"rich", "simple"}
  /\ cwd = WorkTree
  /\ inputs = SubmittedValues
  /\ logger = None
  /\ headless = None
  /\ Mounted

Next ==
  \/ Edit
  \/ Submit
  \/ KeyPress
  \/ ExitTimer
  \/ ModelsArrive
  \/ FetchRejects
  \/ FetchAborts
  \/ FetchResolves
  \/ BodyArrives
  \/ BodyRejects

Spec == Init /\ [][Next]_vars

----------------------------------------------------------------------------
(* History Deduplicator: the effect on [history, logger]                   *)
(* part_000 357-373, App.tsx 392-411.  The effect writes userMessages      *)
(* only, which no handler above reads; Spec leaves the effect out and      *)
(* RecallSpec runs it.                                                     *)

Reverse(sq) == [i \in 1..Len(sq) |-> sq[Len(sq) + 1 - i]]

\* history.filter(item => item.type === 'user').map(item => item.text)
RECURSIVE UserTexts(_)
UserTexts(h) ==
  IF h = <<>> THEN <<>>
  ELSE IF Head(h).type = "user" THEN <<Head(h).text>> \o UserTexts(Tail(h))
  ELSE UserTexts(Tail(h))

\* the loop that drops every repeat, adjacent or not
RECURSIVE deduplicated_all(_, _, _)
deduplicated_all(combined, i, acc) ==
  IF i > Len(combined) THEN acc
  ELSE deduplicated_all(combined, i + 1,
         IF \E j \in 1..(i - 1) : combined[j] = combined[i] THEN acc
         ELSE Append(acc, combined[i]))

\* the loop over combined: i is the index, acc the array built so far
RECURSIVE deduplicated(_, _, _)
deduplicated(combined, i, acc) ==
  IF i > Len(combined) THEN acc
  ELSE deduplicated(combined, i + 1,
         IF i = 1 \/ combined[i] # combined[i - 1]
         THEN Append(acc, combined[i]) ELSE acc)

\* (await logger?.getPreviousUserMessages()) || []
PastOf(lg) == IF lg = None THEN <<>> ELSE lg.past

\* the effect's body after its await, for the history h it closed over
publish(h, past) ==
  LET current == Reverse(UserTexts(h))
      combined == current \o past
  IN Reverse(deduplicated(combined, 1, <<>>))

\* the effect runs for a history it has not run for yet, and awaits the log
RecallEffect ==
  /\ Running
  /\ effectDeps # [history |-> history]
  /\ effectDeps' = [history |-> history]
  /\ recalls' = Append(recalls, history)
  /\ UNCHANGED <<env, userMessages, history, models, selectedModel,
                 modelsFetch, streamingState, isAutopilot, approvalRequest,
                 request, exitKeys, bufferEmpty, quit, trace>>

\* one awaited read of the persisted log completes: setUserMessages.  The
\* reads of a logger complete in any order; without a logger the awaits of
\* undefined resume in the order they were made.
RecallDone ==
  /\ Running
  /\ \E i \in DOMAIN recalls :
       /\ logger = None => i = 1
       /\ userMessages' = publish(recalls[i], PastOf(logger))
       /\ recalls' = SubSeq(recalls, 1, i - 1)
                       \o SubSeq(recalls, i + 1, Len(recalls))
  /\ UNCHANGED <<env, effectDeps, history, models, selectedModel,
                 modelsFetch, streamingState, isAutopilot, approvalRequest,
                 request, exitKeys, bufferEmpty, quit, trace>>

MaxLive == 3         \* user entries of a live history
MaxPast == 2         \* entries of a persisted log

SeqsUpTo(S, n) == UNION {[1..k -> S] : k \in 0..n}
aS == Str(<<"a">>)
bS == Str(<<"b">>)
cS == Str(<<"c">>)

\* a session in which each of the texts was submitted and answered
RECURSIVE Answered(_)
Answered(texts) ==
  IF texts = <<>> THEN <<>>
  ELSE <<Item("user", Head(texts)), Item("gemini", Str(<<"h", "m">>))>>
       \o Answered(Tail(texts))

\* sessions at rest, with a history of answered prompts and a logger or none
RecallInit ==
  /\ variant \in {"rich", "simple"}
  /\ cwd = WorkTree
  /\ inputs = SubmittedValues
  /\ logger \in {None} \cup {[past |-> p] : p \in SeqsUpTo({aS, cS}, MaxPast)}
  /\ headless = None
  /\ \E texts \in SeqsUpTo({aS, bS}, MaxLive) : history = Answered(texts)
  /\ models = <<[id |-> "m1"], [id |-> "m2"]>>
  /\ selectedModel = "m1"
  /\ modelsFetch = "done"
  /\ streamingState = "Idle"
  /\ isAutopilot = FALSE
  /\ approvalRequest = None
  /\ request = None
  /\ exitKeys = [k \in {"c", "d"} |-> NoExit]
  /\ bufferEmpty = TRUE
  /\ quit = 0
  /\ trace = <<>>
  /\ userMessages = <<>>
  /\ recalls = <<>>
  /\ effectDeps = None

RecallNext == RecallEffect \/ RecallDone

RecallSpec == RecallInit /\ [][RecallNext]_vars

\* a session with a model selected and a persisted log, in which prompts
\* are submitted and answered while the effect recomputes the recall list
RaceInit ==
  /\ variant \in {"rich", "simple"}
  /\ cwd = WorkTree
  /\ inputs = {hi}
  /\ logger \in {[past |-> p] : p \in {<<>>, <<aS>>}}
  /\ headless = None
  /\ history = <<>>
  /\ models = <<[id |-> "m1"], [id |-> "m2"]>>
  /\ selectedModel = "m1"
  /\ modelsFetch = "done"
  /\ streamingState = "Idle"
  /\ isAutopilot = FALSE
  /\ approvalRequest = None
  /\ request = None
  /\ exitKeys = [k \in {"c", "d"} |-> NoExit]
  /\ bufferEmpty = TRUE
  /\ quit = 0
  /\ trace = <<>>
  /\ userMessages = <<>>
  /\ recalls = <<>>
  /\ effectDeps = None

RaceNext ==
  \/ Edit
  \/ Submit
  \/ FetchRejects
  \/ FetchResolves
  \/ BodyArrives
  \/ RecallEffect
  \/ RecallDone

RaceSpec == RaceInit /\ [][RaceNext]_vars

----------------------------------------------------------------------------
(* The non-interactive variant: runNonInteractive,                         *)
(* src/.vscode/launch.json 128-164                                         *)

Statuses == {200, 404, 500}

\* chat-completion bodies, one of them with two choices
HeadlessBodies ==
  Bodies \cup { [choices |-> <<[message |-> [content |-> Str(aT)]],
                              [message |-> [content |-> hi]]>>] }

\* process.exit(code) was called
Exited(code) == [code |-> code]

\* a catch block that prints the error and returns
catch_noExit(h, message) ==
  [h EXCEPT !.phase = "done", !.stderr = Append(@, message)]

\* launch.json 160-163: console.error, then process.exit(1)
catch(h, message) ==
  [h EXCEPT !.phase = "done", !.stderr = Append(@, message),
            !.exit = Exited(1)]

\* launch.json 146-159, once the body has been read to its end
afterBody(h, body) ==
  IF h.status # 200
  THEN catch(h, MsgOf("API request failed with status ",
                      [status |-> h.status, errorBody |-> body]))
  ELSE IF body = NotJson THEN catch(h, Msg("SyntaxError"))
  ELSE LET r == ResponseText(body)
       IN IF Has(r, "typeError") THEN catch(h, Msg("TypeError"))
          ELSE [h EXCEPT !.phase = "done",
                         !.stdout = Append(@, [text |-> r.value, nl |-> TRUE])]

HeadlessFrame ==
  UNCHANGED <<variant, cwd, inputs, logger, recall, history, models,
              selectedModel, modelsFetch, streamingState, isAutopilot,
              approvalRequest, request, exitKeys, bufferEmpty, quit, trace>>

\* fetch rejects
HeadlessFetchRejects ==
  /\ headless.phase = "fetch"
  /\ headless' = catch(headless, Msg("fetch failed"))
  /\ HeadlessFrame

\* fetch resolves with the response headers
HeadlessResponds ==
  /\ headless.phase = "fetch"
  /\ \E st \in Statuses :
       headless' = [headless EXCEPT !.phase = "body", !.status = st]
  /\ HeadlessFrame

HeadlessBodyArrivesOf(body) ==
  /\ headless.phase = "body"
  /\ headless' = afterBody(headless, body)
  /\ HeadlessFrame

\* apiResponse.text() or apiResponse.json() has the whole body
HeadlessBodyArrives == \E body \in HeadlessBodies : HeadlessBodyArrivesOf(body)

\* reading the body rejects
HeadlessBodyRejects ==
  /\ headless.phase = "body"
  /\ headless' = catch(headless, Msg("terminated"))
  /\ HeadlessFrame

\* runNonInteractive has been called with an input and awaits its fetch
HeadlessInit ==
  /\ variant = "headless"
  /\ cwd = WorkTree
  /\ inputs = {}
  /\ logger = None
  /\ \E v \in PromptValues :
       headless = [input |-> v, phase |-> "fetch", status |-> 0,
                   stdout |-> <<>>, stderr |-> <<>>, exit |-> None]
  /\ exitKeys = [k \in {"c", "d"} |-> NoExit]
  /\ Mounted

HeadlessNext ==
  \/ HeadlessFetchRejects
  \/ HeadlessResponds
  \/ HeadlessBodyArrives
  \/ HeadlessBodyRejects

HeadlessSpec == HeadlessInit /\ [][HeadlessNext]_vars

MaxEntries == 3      \* entries of the working directory

libN == <<"l", "i", "b">>
distN == <<"d", "i", "s", "t">>
xS == Str(<<"x">>)

\* what an entry of the working directory may be
EntryShapes ==
  { File(aT, xS), File(bT, xS), Link(aT),
    Dir(libN, <<>>), Dir(libN, <<File(aT, xS)>>),
    Dir(libN, <<Dir(distN, <<File(aT, xS)>>), File(bT, xS), File(aT, xS)>>),
    Dir(distN, <<File(aT, xS)>>),
    Dir(aT, <<File(bT, xS)>>) }

\* sessions of the rich build in a working directory of up to MaxEntries
\* entries with distinct names, in which the user submits a file's name
SearchInit ==
  /\ variant = "rich"
  /\ cwd \in SeqsUpTo(EntryShapes, MaxEntries)
  /\ \A i, j \in DOMAIN cwd : cwd[i].name = cwd[j].name => i = j
  /\ \E nm \in {aT, bT} : inputs = {Str(nm)}
  /\ logger = None
  /\ headless = None
  /\ exitKeys = [k \in {"c", "d"} |-> NoExit]
  /\ Mounted

SearchNext == Edit \/ Submit

SearchSpec == SearchInit /\ [][SearchNext]_vars

\* sessions in which the user submits one prompt, a file's name, and the
\* expiry of each exit key's timer is recorded
ExitInit ==
  /\ variant \in {"rich", "simple"}
  /\ cwd = WorkTree
  /\ inputs = {Str(<<Sp>> \o aT)}
  /\ logger = None
  /\ headless = None
  /\ exitKeys = [k \in {"c", "d"} |->
                  [pressedOnce |-> FALSE, timerRef |-> FALSE,
                   armed |-> FALSE, elapsed |-> FALSE]]
  /\ Mounted

ExitSpec == ExitInit /\ [][Next]_vars

\* sessions of the rich build in which the user submits one given prompt
PromptInit ==
  /\ exitKeys = [k \in {"c", "d"} |-> NoExit]
  /\ variant = "rich"
  /\ cwd = PromptTree
  /\ \E v \in PromptValues : inputs = {v}
  /\ logger = None
  /\ headless = None
  /\ Mounted

PromptSpec == PromptInit /\ [][Next]_vars

----------------------------------------------------------------------------
(* Reading the trace of the current submission *)

Events(e) == {i \in DOMAIN trace : trace[i].e = e}
Occurs(e) == Events(e) # {}
Count(e) == Cardinality(Events(e))

\* positions of the events the step under consideration added to the trace
Added == IF Len(trace') > Len(trace) /\ SubSeq(trace', 1, Len(trace)) = trace
         THEN (Len(trace) + 1)..Len(trace') ELSE {}
AddedOf(e) == {i \in Added : trace'[i].e = e}

\* the submission under way: its prompt, and whether a file token was found
Submitted == trace # <<>> /\ trace[1].e = "submit"
SubmittedPrompt == trim(trace[1].value)
Searched == Occurs("search")
SearchEvent == trace[SetMin(Events("search"))]

----------------------------------------------------------------------------
(* Approval gate *)

\* C1: with autopilot off, the search for the referenced file and the read
\* of it happen only after an approve event of the same submission.
C1_AccessOnlyAfterApproval ==
  (variant = "rich" /\ Submitted /\ ~trace[1].autopilot) =>
    \A i \in Events("search") \cup Events("read") :
      \E j \in Events("approve") : j < i

\* C2: a deny never dispatches.  The step that handles the deny clears the
\* approval slot, appends the cancellation notice and nothing else, leaves
\* StreamingState at Idle and issues no request; the submission's trace
\* never holds a dispatch or a request next to a deny.
C2_DenyStep ==
  AddedOf("deny") # {} =>
    /\ approvalRequest # None /\ approvalRequest' = None
    /\ history' = Append(history, Item("info", Msg("Action cancelled.")))
    /\ streamingState = "Idle" /\ streamingState' = "Idle"
    /\ request = None /\ request' = None
    /\ AddedOf("dispatch") = {} /\ AddedOf("request") = {}

C2_DenyNeverDispatches ==
  /\ [](Occurs("deny") =>
          /\ ~Occurs("dispatch") /\ ~Occurs("request") /\ ~Occurs("approve")
          /\ approvalRequest = None /\ streamingState = "Idle")
  /\ [][C2_DenyStep]_vars

C2_Witness ==
  /\ Occurs("deny") /\ Occurs("raise")
  /\ LastText(history) = Msg("Action cancelled.")

\* the enriched prompt of the submission under way
IsEnriched(p) ==
  /\ Searched
  /\ IF SearchEvent.found
     THEN /\ "tpl" \in DOMAIN p /\ p.tpl = "found"
          /\ p.prompt = SubmittedPrompt
     ELSE p = [tpl |-> "notfound", fileName |-> SearchEvent.fileName]

\* C3: one approve causes exactly one call of sendQueryToModel, with the
\* enriched prompt and the submitted prompt, and clears the approval slot;
\* a submission that raised a request is dispatched as often as it was
\* approved, which is at most once.
C3_ApproveStep ==
  AddedOf("approve") # {} =>
    /\ Cardinality(AddedOf("approve")) = 1
    /\ Cardinality(AddedOf("dispatch")) = 1
    /\ approvalRequest # None /\ approvalRequest' = None
    /\ \A i \in AddedOf("dispatch") :
         /\ trace'[i].promptToSend = approvalRequest.proceed.promptToSend
         /\ trace'[i].originalPrompt = SubmittedPrompt

C4_SingleApprovalRequest ==
  /\ [](Count("raise") <= 1)
  /\ [](approvalRequest # None =>
          Occurs("raise") /\ ~isInputActive /\ streamingState = "Idle")
  /\ [][approvalRequest # None =>
          /\ approvalRequest' \in {approvalRequest, None}
          /\ SubSeq(trace', 1, Len(trace)) = trace]_vars

C4_Witness ==
  /\ approvalRequest # None /\ Occurs("raise")
  /\ history # <<>> /\ Occurs("return")

\* the submission named a file that the search did not find, and
\* submitQuery has returned
NotFoundCase ==
  /\ variant = "rich" /\ Submitted /\ Searched /\ ~SearchEvent.found
  /\ Occurs("return")

ReturnAt == SetMin(Events("return"))

----------------------------------------------------------------------------
(* Model dispatch *)

\* C6: whenever no dispatch is under way (it was rejected for want of a
\* model, or its request has failed or succeeded), StreamingState is Idle.
C6_IdleAfterDispatch == request = None => streamingState = "Idle"

C6_Witness ==
  /\ Occurs("outcome") /\ request = None /\ streamingState = "Idle"
  /\ history # <<>> /\ history[Len(history)].type = "error"

\* the timers of the program fire when they are due; nothing makes the
\* backend answer
FairSpec == Spec /\ WF_vars(FetchAborts) /\ WF_vars(ExitTimer)

\* C7: every issued request is bounded in time: Responding leads to Idle
\* (or to the end of the session).
C7_RespondingLeadsToIdle ==
  (streamingState = "Responding") ~> (streamingState = "Idle" \/ quit > 0)

\* C8: a dispatch while no model is selected issues no request, appends
\* exactly one entry, an error, no user entry, and leaves StreamingState
\* as it was.
C8_Step ==
  \A i \in AddedOf("dispatch") :
    selectedModel = NoModel =>
      /\ AddedOf("request") = {} /\ AddedOf("user") = {}
      /\ request' = request /\ streamingState' = streamingState
      /\ SubSeq(history', 1, Len(history)) = history
      /\ Len(history') = trace'[i].len + 1
      /\ history'[Len(history')].type = "error"
      /\ \A k \in (Len(history) + 1)..Len(history') : history'[k].type # "user"

C8_NoModelNoRequest == [][C8_Step]_vars

C8_Witness ==
  /\ selectedModel = NoModel /\ Occurs("dispatch") /\ ~Occurs("request")
  /\ history # <<>> /\ history[Len(history)].type = "error"
  /\ "msg" \in DOMAIN LastText(history)
  /\ LastText(history).msg \in {"Error: No local model is selected.",
                               "Error: No local model is selected or available."}

\* the response a request ended with, as the claim classifies it
Parsable(body) ==
  /\ body # NotJson /\ "choices" \in DOMAIN body /\ Len(body.choices) >= 1
  /\ "message" \in DOMAIN body.choices[1]
IsSuccess(r) == r.kind = "body" /\ r.ok /\ Parsable(r.body)
ContentOf(body) ==
  IF "content" \in DOMAIN body.choices[1].message
  THEN body.choices[1].message.content ELSE Undefined
Description(r) ==
  IF r.kind = "reject" THEN "fetch failed"
  ELSE IF r.kind = "abort" THEN "AbortError"
  ELSE IF r.kind = "lost" THEN "terminated"
  ELSE IF ~r.ok THEN "API request failed"
  ELSE IF r.body = NotJson THEN "SyntaxError" ELSE "TypeError"

\* C9: the step that ends a request appends exactly one entry: the
\* assistant entry carrying choices[0].message.content when the response is
\* a success, otherwise an error entry carrying the failure description; a
\* request never ends without that step, and nothing is thrown past it.
C9_Step ==
  /\ (request # None /\ request' = None) => AddedOf("outcome") # {}
  /\ AddedOf("outcome") # {} =>
       /\ Cardinality(AddedOf("outcome")) = 1
       /\ Cardinality(AddedOf("response")) = 1
       /\ AddedOf("throw") = {}
       /\ request # None /\ request' = None
       /\ history' # <<>>
       /\ SubSeq(history', 1, Len(history' ) - 1) = history
       /\ LET r == trace'[CHOOSE i \in AddedOf("response") : TRUE]
              item == history'[Len(history')]
          IN IF IsSuccess(r)
             THEN item = Item("gemini", ContentOf(r.body))
             ELSE item = Item("error",
                    MsgOf("Error connecting to local model: ",
                          [message |-> Description(r)]))

C10_UserEntryBeforeRequest ==
  variant = "rich" =>
    \A i \in Events("dispatch") :
      (\E j \in Events("request") : j > i) =>
        /\ (trace[i].last # trace[i].originalPrompt) => (i + 1) \in Events("user")
        /\ (trace[i].last = trace[i].originalPrompt) => (i + 1) \notin Events("user")

----------------------------------------------------------------------------
(* Failure paths of submitQuery *)

\* C11: no failure of a submission escapes as an unhandled fault: when the
\* file the search resolved cannot be read (a directory, a dangling link, an
\* unreadable file), the submission records a history entry for the failure
\* and throws nothing past submitQuery.
C11_ReadFailureRecorded ==
  [][\A i \in AddedOf("search") :
       trace'[i].kind \notin {"file", "none"} =>
         /\ AddedOf("throw") = {}
         /\ Len(history') > Len(history)]_vars

----------------------------------------------------------------------------
(* Context enrichment *)

ReadEvent == trace[SetMin(Events("read"))]
DispatchEvent == trace[SetMin(Events("dispatch"))]

\* the truncation notices the submission under way has recorded
Notices ==
  {i \in (trace[1].at + 1)..Len(history) :
     /\ history[i].type = "info"
     /\ history[i].text.msg = "Warning: The file was truncated."}

\* C12: when the content of the resolved file is longer than the budget
\* (the maximum of 16384 characters less the template's overhead), the
\* content embedded in the dispatched prompt has exactly the budget's length
\* and exactly one truncation notice is recorded.
C12_TruncatedToBudget ==
  (Submitted /\ Occurs("read") /\ Occurs("dispatch")
   /\ StrLen(ReadEvent.content) > ReadEvent.availableChars)
  => /\ StrLen(DispatchEvent.promptToSend.content) = ReadEvent.availableChars
     /\ Cardinality(Notices) = 1

\* C13: when the prompt's one filename token resolves to a file whose content
\* is not longer than the budget, the dispatched prompt is the template with
\* the whole content, character for character, in its content slot, and no
\* truncation notice is recorded.
C13_EmbeddedVerbatim ==
  (Submitted /\ Occurs("read") /\ Occurs("dispatch")
   /\ StrLen(ReadEvent.content) <= ReadEvent.availableChars)
  => /\ DispatchEvent.promptToSend =
          FoundPrompt(SubmittedPrompt, ReadEvent.path, ReadEvent.content)
     /\ Notices = {}

----------------------------------------------------------------------------
(* Prompts without a file token *)

\* a filename-like token: a dot with a name character before it and a word
\* character after it
HasToken(v) ==
  \E k \in 2..(Len(v.chars) - 1) :
    /\ v.chars[k] = "."
    /\ IsNameChar(v.chars[k - 1])
    /\ IsWord(v.chars[k + 1])

SubmittedValue == trace[1].value

PlainDispatch(sent) ==
  /\ \A i \in Events("dispatch") :
       trace[i].promptToSend = sent /\ trace[i].originalPrompt = sent
  /\ \A i \in Events("request") : trace[i].content = sent
  /\ ~Occurs("raise")
  /\ ~Occurs("search")

\* C14 as stated: for a prompt without a filename-like token the prompt sent
\* to the backend equals the submitted input exactly, no ApprovalRequest is
\* raised and the filesystem is not searched.
C14_SentAsSubmitted ==
  (variant = "rich" /\ Submitted /\ ~HasToken(SubmittedValue))
  => PlainDispatch(SubmittedValue)

\* C14 amended: for a prompt without a filename-like token the prompt sent
\* to the backend is the submitted input with the white space at its two
\* ends removed; it is dispatched once when it is not empty and not at all
\* when it is; no ApprovalRequest is raised and the filesystem is not
\* searched.
C14_SentTrimmed ==
  (variant = "rich" /\ Submitted /\ ~HasToken(SubmittedValue))
  => /\ PlainDispatch(trim(SubmittedValue))
     /\ Occurs("return") =>
          Count("dispatch") = IF StrLen(trim(SubmittedValue)) > 0 THEN 1 ELSE 0

C14_Witness ==
  /\ variant = "rich" /\ Submitted /\ ~HasToken(SubmittedValue)
  /\ trim(SubmittedValue) # SubmittedValue
  /\ Occurs("request")
  /\ approvalRequest = None

----------------------------------------------------------------------------
(* Exit debounce *)

CtrlC == Key("c", TRUE, FALSE)
CtrlD == Key("d", TRUE, FALSE)

\* the key event that signals exit key k, where the build listens for it
ExitKey(k) == IF k = "c" THEN CtrlC ELSE CtrlD
Signals(k) == k = "c" \/ (variant = "simple" /\ bufferEmpty)

\* C15: one signal of an exit key does not terminate the session: it sets
\* pressedOnce and arms the timer.  A second signal of the same key while
\* pressedOnce is true cancels the timer and issues '/quit', once.
C15_Step ==
  \A k \in {"c", "d"} :
    (Signals(k) /\ KeyPressOf(ExitKey(k))) =>
      IF exitKeys[k].pressedOnce
      THEN quit' = quit + 1 /\ quit' = 1 /\ ~exitKeys'[k].armed
      ELSE quit' = quit /\ exitKeys'[k].pressedOnce /\ exitKeys'[k].armed

C15_SecondSignalQuits == [][C15_Step]_vars

C15_Witness ==
  /\ quit = 1
  /\ \E k \in {"c", "d"} : exitKeys[k].pressedOnce /\ ~exitKeys[k].armed

\* C16: two signals of an exit key more than 1000 ms apart act as two first
\* signals: the timer running out sets pressedOnce back to false and drops
\* the timer handle, and the signal that follows does not terminate the
\* session and arms a new timer.
C16_Step ==
  \A k \in {"c", "d"} :
    /\ (ExitTimer /\ exitKeys'[k] # exitKeys[k]) =>
         /\ ~exitKeys'[k].pressedOnce
         /\ ~exitKeys'[k].timerRef
         /\ ~exitKeys'[k].armed
         /\ quit' = quit
    /\ (Signals(k) /\ KeyPressOf(ExitKey(k))
          /\ exitKeys[k].elapsed /\ ~exitKeys[k].armed) =>
         /\ quit' = quit
         /\ exitKeys'[k].pressedOnce
         /\ exitKeys'[k].timerRef
         /\ exitKeys'[k].armed

C16_LateSignalIsFirstSignal == [][C16_Step]_vars

C16_Witness ==
  /\ quit = 0
  /\ \E k \in {"c", "d"} :
       exitKeys[k].elapsed /\ exitKeys[k].pressedOnce /\ exitKeys[k].armed

\* C17: the two exit keys are debounced apart: a signal of one key leaves
\* the other key's pressedOnce and timer as they are, so one press of each,
\* in either order, does not terminate the session (only a key pressed once
\* already does); and Ctrl+D with text in the input buffer changes no exit
\* state.
C17_Step ==
  /\ KeyPressOf(CtrlC) => exitKeys'["d"] = exitKeys["d"]
  /\ KeyPressOf(CtrlD) => exitKeys'["c"] = exitKeys["c"]
  /\ quit' # quit =>
       \E k \in {"c", "d"} :
         /\ exitKeys[k].pressedOnce /\ KeyPressOf(ExitKey(k))
         /\ \A j \in {"c", "d"} \ {k} : exitKeys'[j] = exitKeys[j]
  /\ ~bufferEmpty =>
       LET s == useInput(Cur, CtrlD)
       IN s.exitKeys = exitKeys /\ s.quit = quit

C17_KeysDebouncedApart == [][C17_Step]_vars

C17_Witness ==
  /\ quit = 0
  /\ exitKeys["c"].pressedOnce /\ exitKeys["c"].armed
  /\ exitKeys["d"].pressedOnce /\ exitKeys["d"].armed

----------------------------------------------------------------------------
(* History Deduplicator *)

\* the entries of sq at the indices in K, in descending order of index
RECURSIVE Descending(_, _)
Descending(sq, K) ==
  IF K = {} THEN <<>>
  ELSE <<sq[SetMax(K)]>> \o Descending(sq, K \ {SetMax(K)})

\* reverse(adjacentDedup(reverse(live user texts) ++ persisted log)): of
\* the concatenation, the entries that differ from their predecessor,
\* last one first
RecallList(h, past) ==
  LET users == {i \in DOMAIN h : h[i].type = "user"}
      live == Descending([i \in DOMAIN h |-> h[i].text], users)
      c == live \o past
  IN Descending(c, {i \in DOMAIN c : i = 1 \/ c[i] # c[i - 1]})

\* C18: the published recall list is reverse(adjacentDedup(reverse(live
\* user texts) ++ persisted log)), whatever the live history and the
\* persisted log: only an entry equal to its predecessor in the
\* concatenation is dropped, and the list is oldest first.
C18_Step ==
  RecallDone =>
    \E i \in DOMAIN recalls :
      /\ userMessages' = RecallList(recalls[i], PastOf(logger))
      /\ Len(recalls') = Len(recalls) - 1

C18_RecallListPublished == [][C18_Step]_vars

\* live [a, b, a] newest first and persisted [a, c] publish [c, a, b, a]
C18_Witness ==
  /\ UserTexts(history) = <<aS, bS, aS>>
  /\ logger = [past |-> <<aS, cS>>]
  /\ recalls = <<>> /\ effectDeps = [history |-> history]
  /\ userMessages = <<cS, aS, bS, aS>>

----------------------------------------------------------------------------
(* Model listing *)

ListingFails(r) == r.net = "fail" \/ ~r.ok \/ r.json = NotJson
LacksList(r) == ~ListingFails(r) /\ ~Has(r.json, "data")
ErrorRecorded ==
  /\ Len(history') = Len(history) + 1
  /\ history'[Len(history')].type = "error"

\* C19: when the listing call fails or its response has no model list
\* field, no model is available, selectedModel stays unset and an error
\* entry is recorded in history; when the list is not empty, selectedModel
\* becomes the id of the first model listed.
C19_Step ==
  \A r \in ModelsResponses :
    ModelsArriveOf(r) =>
      /\ (ListingFails(r) \/ LacksList(r)) =>
           /\ models' = <<>>
           /\ selectedModel' = NoModel
           /\ ErrorRecorded
      /\ (~ListingFails(r) /\ ~LacksList(r) /\ r.json.data # <<>>) =>
           selectedModel' = r.json.data[1].id

C19_ListingOutcome == [][C19_Step]_vars

----------------------------------------------------------------------------
(* Input while an ApprovalRequest is pending *)

Affirmative(key) == key.return \/ key.input \in {"y", "Y"}
Negative(key) == key.input \in {"n", "N"}
OtherKeys == {key \in Keys : ~Affirmative(key) /\ ~Negative(key)}
CtrlA == Key("a", TRUE, FALSE)
Pending == variant = "rich" /\ Running /\ approvalRequest # None

\* C20 as stated: while an ApprovalRequest is pending, every input other
\* than Enter, y/Y and n/N is ignored: it leaves the approval slot, history,
\* the autopilot flag, the exit-press state and StreamingState unchanged.
C20_OtherInputIgnored ==
  [][\A key \in OtherKeys :
       (Pending /\ KeyPressOf(key)) =>
         UNCHANGED <<approvalRequest, history, isAutopilot, exitKeys,
                     streamingState>>]_vars

\* C20 amended: while an ApprovalRequest is pending, no input other than
\* Enter, y/Y and n/N changes the approval slot, StreamingState or the
\* request in flight.  The global keys stay live: Ctrl+C, and only it,
\* changes the exit-press state (a second one quits); Ctrl+A, and only it,
\* flips the autopilot flag and adds one info entry to history.
C20_OnlyGlobalKeysAct ==
  Pending =>
    \A key \in OtherKeys :
      LET s == useInput(Cur, key)
      IN /\ s.approvalRequest = approvalRequest
         /\ s.streamingState = streamingState
         /\ s.request = request
         /\ IF key = CtrlA
            THEN /\ s.isAutopilot = ~isAutopilot
                 /\ Len(s.history) = Len(history) + 1
                 /\ SubSeq(s.history, 1, Len(history)) = history
                 /\ s.history[Len(s.history)].type = "info"
            ELSE s.isAutopilot = isAutopilot /\ s.history = history
         /\ IF key = CtrlC
            THEN IF exitKeys["c"].pressedOnce
                 THEN s.quit = quit + 1
                 ELSE s.quit = quit /\ s.exitKeys["c"].pressedOnce
            ELSE s.exitKeys = exitKeys /\ s.quit = quit

\* Ctrl+A and Ctrl+C were pressed while the request was pending: autopilot
\* is on although a request is pending, and the exit timer is armed
C20_Witness ==
  /\ Pending
  /\ isAutopilot
  /\ history # <<>> /\ history[Len(history)].type = "info"
  /\ exitKeys["c"].pressedOnce

----------------------------------------------------------------------------
(* Autopilot *)

FoundCase ==
  /\ variant = "rich" /\ Submitted /\ Searched /\ SearchEvent.found
  /\ Occurs("return")

\* the entries 'Autopilot ON. Reading file: ...' the submission has recorded
AccessNotices ==
  {i \in (trace[1].at + 1)..Len(history) :
     /\ history[i].type = "info"
     /\ history[i].text.msg = "Autopilot ON. "
     /\ Has(history[i].text.arg, "reading")}

\* C21: when the search finds a match and autopilot is on, submitQuery
\* dispatches by itself, raises no ApprovalRequest and records exactly one
\* info entry naming the file it accessed; when autopilot is off it raises
\* an ApprovalRequest and nothing is dispatched until the request is
\* resolved.
C21_GateOnMatch ==
  FoundCase =>
    IF trace[1].autopilot
    THEN /\ ~Occurs("raise")
         /\ \E i \in Events("dispatch") : i < ReturnAt
         /\ Cardinality(AccessNotices) = 1
    ELSE /\ Occurs("raise")
         /\ \A i \in Events("dispatch") :
              i > ReturnAt /\ \E j \in Events("approve") : j < i
         /\ AccessNotices = {}

ModeNotice(on) == Item("info", MsgOf("Autopilot mode is now ", [on |-> on]))

\* C22: the autopilot flag changes on the user's Ctrl+A only: each Ctrl+A
\* flips it and records exactly one info entry stating the new mode; no
\* other event (a submission, an approve or deny, the end of a dispatch, a
\* timer, an exit key) changes it.
C22_Step ==
  /\ isAutopilot' # isAutopilot => variant = "rich" /\ KeyPressOf(CtrlA)
  /\ (variant = "rich" /\ KeyPressOf(CtrlA)) =>
       /\ isAutopilot' = ~isAutopilot
       /\ history' = Append(history, ModeNotice(isAutopilot'))
  /\ (variant = "rich" /\ Running) =>
       useInput(Cur, CtrlA).isAutopilot = ~isAutopilot

C22_AutopilotOnlyByToggle == [][C22_Step]_vars

\* the flag was switched on, a prompt submitted and answered, and the flag
\* is still on
C22_Witness ==
  /\ variant = "rich" /\ isAutopilot
  /\ \E i \in DOMAIN history : history[i] = ModeNotice(TRUE)
  /\ Occurs("outcome")

----------------------------------------------------------------------------
(* File search *)

\* the entries under a directory in depth-first order, each before what it
\* holds, leaving out what lies under node_modules, .git, dist or build
RECURSIVE Enumerate(_, _)
Enumerate(entries, prefix) ==
  IF entries = <<>> THEN <<>>
  ELSE LET f == Head(entries)
           p == Append(prefix, f.name)
       IN <<[path |-> p, entry |-> f]>>
          \o (IF f.kind = "dir" /\ f.name \notin ignoreDirs
              THEN Enumerate(f.children, p) ELSE <<>>)
          \o Enumerate(Tail(entries), prefix)

\* the entries the claim speaks of: no directory, base name equal to name
Candidates(en, name) ==
  {i \in DOMAIN en : en[i].entry.kind # "dir" /\ en[i].entry.name = name}

----------------------------------------------------------------------------
(* Non-interactive variant *)

Finishes == headless.phase # "done" /\ headless'.phase = "done"

\* C24: on success runNonInteractive writes the content of the first choice
\* and a newline to stdout; on a failure (the fetch or the body read
\* rejecting, a status outside 2xx, a body that is no JSON or has no first
\* choice with a message) it prints the error and ends the process with
\* exit status 1, having written nothing to stdout.
C24_Step ==
  /\ Finishes =>
       \/ /\ headless'.stdout = <<>>
          /\ Len(headless'.stderr) = 1
          /\ headless'.exit = Exited(1)
       \/ /\ Len(headless'.stdout) = 1
          /\ headless'.stderr = <<>>
          /\ headless'.exit = None
  /\ (HeadlessFetchRejects \/ HeadlessBodyRejects) => headless'.exit = Exited(1)
  /\ \A body \in HeadlessBodies :
       HeadlessBodyArrivesOf(body) =>
         IF headless.status = 200 /\ Parsable(body)
         THEN headless'.stdout = <<[text |-> ContentOf(body), nl |-> TRUE]>>
         ELSE headless'.exit = Exited(1)

----------------------------------------------------------------------------
(* Exclusion of requests, approvals and submissions *)

\* the step under consideration starts a submission
Submits ==
  /\ trace' # trace /\ trace' # <<>> /\ trace'[1].e = "submit"
  /\ trace = <<>> \/ Added = {}

\* the requests the step under consideration issues
Issued ==
  IF Submits THEN {i \in DOMAIN trace' : trace'[i].e = "request"}
  ELSE AddedOf("request")

\* C25: at most one model request is in flight at any time (a request is in
\* flight exactly while the state is Responding, and a step issues at most
\* one request and only when none is in flight), an ApprovalRequest is
\* never pending while the state is Responding, and a submission starts
\* only from states that are Idle with no approval pending.
C25_Step ==
  /\ Cardinality(Issued) <= 1
  /\ Issued # {} =>
       /\ request = None /\ streamingState = "Idle"
       /\ request' # None /\ request'.phase = "fetch"
  /\ Submits =>
       streamingState = "Idle" /\ approvalRequest = None /\ request = None
Approves == approvalRequest # None /\ AddedOf("approve") # {}

\* C26: when a model is selected at the moment the user approves a pending
\* ApprovalRequest, the approval issues the request with that model and
\* records no 'no model selected' error.
C26_Step ==
  (Approves /\ selectedModel # NoModel) =>
    /\ \E i \in AddedOf("request") : trace'[i].model = selectedModel
    /\ request' # None /\ request'.model = selectedModel
    /\ history' # Append(history,
                     Item("error", Msg("Error: No local model is selected.")))
C26_ApproveUsesSelectedModel == [][C26_Step]_vars

\* the user entries the submission under way has recorded for its prompt
PromptEntries ==
  {k \in (trace[1].at + 1)..Len(history) :
     history[k].type = "user" /\ history[k].text = SubmittedPrompt}

\* C27: for every request issued, history holds a user entry with the
\* submitted prompt, after the entries of the previous request and before
\* the assistant or error entry that ends this request.
C27_PromptRecordedPerRequest ==
  (variant = "rich" /\ Submitted /\ Occurs("request")) =>
    \E k \in PromptEntries :
      Occurs("outcome") =>
        \E j \in (k + 1)..Len(history) : history[j].type \in {"gemini", "error"}

\* the number of characters of an enriched prompt built for a found file
PromptFieldLen(f) ==
  IF Has(f, "before") THEN Len(f.before) + StrLen(f.inserted) + StrLen(f.after)
  ELSE StrLen(f)
EnrichedLen(p) ==
  TEMPLATE_FIXED_LEN + PromptFieldLen(p.prompt) + PathLen(p.fullPath)
  + StrLen(p.content)

\* C28: the enriched prompt dispatched for a found file has at most
\* 4096 x 4 = 16384 characters, and the budget availableChars computed for
\* the file's content is never negative.
C28_EnrichedWithinCeiling ==
  (Submitted /\ Occurs("read") /\ Occurs("dispatch")) =>
    /\ ReadEvent.availableChars >= 0
    /\ EnrichedLen(DispatchEvent.promptToSend) <= MAX_CONTEXT_TOKENS * 4

----------------------------------------------------------------------------
(* Recall list under overlapping recomputations *)

\* no recomputation is awaiting the log and the effect has run for the
\* history as it is now
RecallSettled == recalls = <<>> /\ effectDeps = [history |-> history]

\* C29: once every recomputation of the recall list has published, the
\* published list is the one computed from the most recent history,
\* whatever order the reads of the persisted log completed in.
C29_LatestHistoryPublished ==
  RecallSettled => userMessages = RecallList(history, PastOf(logger))

====
